---------------------------- MODULE Spec2Model ----------------------------
(***************************************************************************)
(* Package httpparse (github.com/lag13/httpparse): RawBody and JSON, the   *)
(* two helpers that check a response's status code, read its body under a  *)
(* byte limit and close it.                                                *)
(*                                                                         *)
(* Representation.                                                         *)
(*  - A byte string is a run-length encoded sequence of runs               *)
(*    [c |-> byte, n |-> count], adjacent runs holding different bytes, so *)
(*    that equal byte strings are equal values and bodies of 1 MiB and     *)
(*    30 MiB (the code's two limits) can be written down.  A nil []byte    *)
(*    and an empty one are both <<>>.                                      *)
(*  - An int64 is kept at its true width as three limbs                    *)
(*    hi * 2^60 + mid * 2^30 + lo, hi in -8..7 (two's complement).         *)
(*  - An error is the sequence of the pieces fmt.Errorf puts together:     *)
(*    [lit |-> text], [int |-> n] (%d of an int), [i64 |-> x] (%d of an    *)
(*    int64), [bytes |-> b] (%s of a []byte).  The nil error is <<>>.      *)
(***************************************************************************)
EXTENDS Integers, Sequences, FiniteSets, TLC

\* ------------------------------------------------------------------ bounds

\* Longest body enumerated byte by byte.
MaxBodyLen == 2
\* Largest number of bytes a body stream hands over in one Read.
MaxChunk == 2
\* Largest small read limit a caller passes (0..MaxLimit).
MaxLimit == 2
\* Longest list of wanted status codes.
MaxWants == 2
\* Bytes the long streams hand over in one Read.
BigChunk == 16777216

\* ------------------------------------------------------- program constants

\* int64(1 << 20 * 30), the default read limit of RawBody.
DefaultMaxBytes == 31457280
\* int64(1 << 20), the limit of JSON's read of an unexpected response.
JSONMaxBytes == 1048576

\* ------------------------------------------------------------------- int64

Limb == 2^30

\* The int64 of a small non-negative number.
I64(n) == [hi |-> 0, mid |-> 0, lo |-> n]

MaxInt64 == [hi |-> 7, mid |-> Limb - 1, lo |-> Limb - 1]
MinInt64 == [hi |-> -8, mid |-> 0, lo |-> 0]
MinusOne64 == [hi |-> -1, mid |-> Limb - 1, lo |-> Limb - 1]

\* x + 1 in int64 arithmetic: it wraps from the largest value to the smallest.
Inc64(x) ==
    IF x.lo < Limb - 1 THEN [x EXCEPT !.lo = x.lo + 1]
    ELSE IF x.mid < Limb - 1 THEN [x EXCEPT !.lo = 0, !.mid = x.mid + 1]
    ELSE IF x.hi < 7 THEN [hi |-> x.hi + 1, mid |-> 0, lo |-> 0]
    ELSE MinInt64

\* x <= 0
LeqZero64(x) == x.hi < 0 \/ (x.hi = 0 /\ x.mid = 0 /\ x.lo = 0)

\* x - k in int64 arithmetic, for 0 <= k < 2^30.
Sub64(x, k) ==
    LET lo1 == x.lo - k
        b1  == IF lo1 < 0 THEN 1 ELSE 0
        mid1 == x.mid - b1
        b2  == IF mid1 < 0 THEN 1 ELSE 0
        hi1 == x.hi - b2
    IN  [hi  |-> IF hi1 < -8 THEN hi1 + 16 ELSE hi1,
         mid |-> mid1 + b2 * Limb,
         lo  |-> lo1 + b1 * Limb]

\* int64(k) > x, for a small k >= 0.
GtNat64(k, x) == x.hi < 0 \/ (x.hi = 0 /\ x.mid = 0 /\ x.lo < k)

\* ------------------------------------------------------------ byte strings

Min(a, b) == IF a < b THEN a ELSE b

RECURSIVE BLen(_)
BLen(b) == IF b = <<>> THEN 0 ELSE b[1].n + BLen(Tail(b))

\* a followed by b; the runs that meet are merged when they hold the same byte.
BCat(a, b) ==
    IF a = <<>> THEN b
    ELSE IF b = <<>> THEN a
    ELSE IF a[Len(a)].c = b[1].c
         THEN SubSeq(a, 1, Len(a) - 1)
              \o <<[c |-> b[1].c, n |-> a[Len(a)].n + b[1].n]>>
              \o Tail(b)
         ELSE a \o b

\* The first k bytes of b (all of b when it is shorter): b[:k].
RECURSIVE BTake(_, _)
BTake(b, k) ==
    IF k <= 0 \/ b = <<>> THEN <<>>
    ELSE IF b[1].n >= k THEN <<[c |-> b[1].c, n |-> k]>>
    ELSE <<b[1]>> \o BTake(Tail(b), k - b[1].n)

\* b without its first k bytes: b[k:].
RECURSIVE BDrop(_, _)
BDrop(b, k) ==
    IF k <= 0 \/ b = <<>> THEN b
    ELSE IF b[1].n > k THEN <<[c |-> b[1].c, n |-> b[1].n - k]>> \o Tail(b)
    ELSE BDrop(Tail(b), k - b[1].n)

\* strings.Repeat(c, n)
Repeat(c, n) == IF n = 0 THEN <<>> ELSE <<[c |-> c, n |-> n]>>

\* The byte string of a sequence of bytes.
RECURSIVE Bytes(_)
Bytes(s) == IF s = <<>> THEN <<>> ELSE BCat(Repeat(s[1], 1), Bytes(Tail(s)))

\* ------------------------------------------------------------------ errors

NilErr == <<>>
Lit(s) == [lit |-> s]
Num(n) == [int |-> n]
Num64(x) == [i64 |-> x]
Text(b) == [bytes |-> b]

\* io.EOF
EOF == <<Lit("EOF")>>

IsPrefix(p, s) == Len(p) <= Len(s) /\ SubSeq(s, 1, Len(p)) = p

\* fmt.Sprintf("%v", xs) of a []int: "[200 888]", "[]" for an empty or nil list.
RECURSIVE SpaceSeparated(_)
SpaceSeparated(xs) ==
    IF xs = <<>> THEN <<>>
    ELSE IF Len(xs) = 1 THEN <<Num(xs[1])>>
    ELSE <<Num(xs[1]), Lit(" ")>> \o SpaceSeparated(Tail(xs))

FormatInts(xs) == <<Lit("[")>> \o SpaceSeparated(xs) \o <<Lit("]")>>

\* ------------------------------------------------------- the response body

\* A response body is a stream: it hands over `data`, at most `chunk` bytes a
\* Read, and then ends with io.EOF or, when readErr is not nil, with readErr.
\* With `withData` the end is returned by the Read that hands over the last
\* bytes, otherwise by the Read after it (io.Reader allows both).  Close
\* returns closeErr.
NoResp == [nil |-> TRUE]

\* resp.Body.Read(p) with len(p) = lenp > 0: the bytes, their number, the error
\* and the stream after the call.
BodyRead(R, lenp) ==
    LET left == BLen(R.data)
        k    == Min(Min(lenp, R.chunk), left)
        end  == IF R.readErr # NilErr THEN R.readErr ELSE EOF
    IN  [p   |-> BTake(R.data, k),
         n   |-> k,
         err |-> IF left = 0 \/ (k = left /\ R.withData) THEN end ELSE NilErr,
         R   |-> [R EXCEPT !.data = BDrop(R.data, k)]]

\* io.LimitedReader.Read(p), l = [R |-> the stream, N |-> bytes remaining].
\* `called` says whether the stream's Read was called.
LimitedReaderRead(l, lenp) ==
    IF LeqZero64(l.N)
    THEN [p |-> <<>>, n |-> 0, err |-> EOF, l |-> l, called |-> FALSE]
    ELSE LET r == BodyRead(l.R, IF GtNat64(lenp, l.N) THEN l.N.lo ELSE lenp)
         IN  [p |-> r.p, n |-> r.n, err |-> r.err,
              l |-> [R |-> r.R, N |-> Sub64(l.N, r.n)], called |-> TRUE]

\* ioutil.ReadAll(limitedReader): Read until io.EOF (no error) or an error.
\* The buffer ReadAll offers is never what bounds a Read: the stream's chunk
\* and the reader's N are.  `reads` counts the calls of the body's Read.
RECURSIVE ReadAllFrom(_, _, _)
ReadAllFrom(l, buf, reads) ==
    LET r      == LimitedReaderRead(l, l.R.chunk)
        buf1   == BCat(buf, r.p)
        reads1 == IF r.called THEN reads + 1 ELSE reads
    IN  IF r.err = EOF
        THEN [b |-> buf1, err |-> NilErr, l |-> r.l, reads |-> reads1]
        ELSE IF r.err # NilErr
        THEN [b |-> buf1, err |-> r.err, l |-> r.l, reads |-> reads1]
        ELSE ReadAllFrom(r.l, buf1, reads1)

ReadAll(l) == ReadAllFrom(l, <<>>, 0)

\* ------------------------------------------------------------ the decoder

IsDigit(c) == c = "7"

\* The number written with d digits 7.
RECURSIVE Sevens(_)
Sevens(d) == IF d = 0 THEN 0 ELSE 10 * Sevens(d - 1) + 7

\* json.NewDecoder(resp.Body).Decode(v) for an int target, on bodies made of
\* the digit 7 and of bytes that start no JSON value: the decoder reads the
\* stream until a value is complete (a number ends at the first byte that is
\* no digit, or at io.EOF) or fails.  `digits` counts the digits scanned.
RECURSIVE DecodeFrom(_, _, _)
DecodeFrom(R, digits, reads) ==
    LET r  == BodyRead(R, R.chunk)
        p  == r.p
        d1 == digits + BLen(p)
    IN  IF p # <<>> /\ ~IsDigit(p[1].c) /\ digits = 0
        THEN [ok |-> FALSE, v |-> 0, reads |-> reads + 1,
              err |-> <<Lit("invalid character '"), Lit(p[1].c),
                        Lit("' looking for beginning of value")>>]
        ELSE IF p # <<>> /\ (~IsDigit(p[1].c) \/ Len(p) > 1)
        THEN [ok |-> TRUE, reads |-> reads + 1, err |-> NilErr,
              v |-> Sevens(digits + (IF IsDigit(p[1].c) THEN p[1].n ELSE 0))]
        ELSE IF r.err = EOF
        THEN IF d1 > 0
             THEN [ok |-> TRUE, v |-> Sevens(d1), reads |-> reads + 1, err |-> NilErr]
             ELSE [ok |-> FALSE, v |-> 0, reads |-> reads + 1, err |-> EOF]
        ELSE IF r.err # NilErr
        THEN [ok |-> FALSE, v |-> 0, reads |-> reads + 1, err |-> r.err]
        ELSE DecodeFrom(r.R, d1, reads + 1)

Decode(R) == DecodeFrom(R, 0, 0)

\* --------------------------------------------------------------- httpparse

\* The loop stops after the first element.
contains_FirstOnly(xs, y) == xs # <<>> /\ xs[1] = y

RECURSIVE contains(_, _)
contains(xs, y) ==
    IF xs = <<>> THEN FALSE
    ELSE IF xs[1] = y THEN TRUE
    ELSE contains(Tail(xs), y)

\* The calls made on the response body, in order: n Reads.
RECURSIVE Reads(_)
Reads(n) == IF n = 0 THEN <<>> ELSE <<"Read">> \o Reads(n - 1)

\* The body is never closed.
deferClose_Never(ops) == ops

\* defer resp.Body.Close(): Close runs once, after everything else the call
\* did to the body; the error it returns is dropped.
deferClose(ops) == Append(ops, "Close")

\* The request error is not looked at.
requestFailed_Never(requestErr) == FALSE

\* if requestErr != nil
requestFailed(requestErr) == requestErr # NilErr

\* fmt.Errorf("sending request: %v", requestErr)
sendingRequest(requestErr) == <<Lit("sending request: ")>> \o requestErr

\* The caller's limit is ignored.
rawMaxBytes_IgnoresCaller(readLimit) == I64(DefaultMaxBytes)

\* maxBytes of RawBody: the default, or the caller's readLimit[0].
rawMaxBytes(readLimit) ==
    IF Len(readLimit) > 0 THEN readLimit[1] ELSE I64(DefaultMaxBytes)

\* errStr of RawBody.
rawStatusErrStr(got, wants) ==
    IF Len(wants) = 1
    THEN <<Lit("got status code "), Num(got), Lit(" but wanted "), Num(wants[1])>>
    ELSE <<Lit("got status code "), Num(got), Lit(" but wanted one of ")>>
         \o FormatInts(wants)

\* return nil, fmt.Errorf("reading response body: %v", err)
rawReadFailed(err) ==
    [body |-> <<>>, err |-> <<Lit("reading response body: ")>> \o err]

\* return nil, fmt.Errorf("ioutil.ReadAll() is used ... limit of %d bytes ...", maxBytes)
rawTooLarge(maxBytes) ==
    [body |-> <<>>,
     err  |-> <<Lit("ioutil.ReadAll() is used to read the response body and we limit how much it can read because nothing is infinite. The response body contained more than the limit of "),
                Num64(maxBytes),
                Lit(" bytes. Either increase the limit or parse the response body another way")>>]

\* The body read is returned beside the status error.
rawMismatch_KeepsBody(got, wants, body) ==
    [body |-> body,
     err  |-> rawStatusErrStr(got, wants) \o <<Lit(", body: "), Text(body)>>]

\* return nil, fmt.Errorf("%s, body: %s", errStr, body)
rawMismatch(got, wants, body) ==
    [body |-> <<>>,
     err  |-> rawStatusErrStr(got, wants) \o <<Lit(", body: "), Text(body)>>]

\* return body, nil
rawOk(body) == [body |-> body, err |-> NilErr]

\* The status is checked before the outcome of the read.
rawResult_StatusFirst(resp, wantStatuses, maxBytes, ra) ==
    IF ~contains(wantStatuses, resp.StatusCode)
    THEN rawMismatch(resp.StatusCode, wantStatuses, ra.b)
    ELSE IF ra.err # NilErr THEN rawReadFailed(ra.err)
    ELSE IF LeqZero64(ra.l.N) THEN rawTooLarge(maxBytes)
    ELSE rawOk(ra.b)

\* What RawBody does after the bounded read: the checks in the code's order.
rawResult(resp, wantStatuses, maxBytes, ra) ==
    IF ra.err # NilErr THEN rawReadFailed(ra.err)
    ELSE IF LeqZero64(ra.l.N) THEN rawTooLarge(maxBytes)
    ELSE IF ~contains(wantStatuses, resp.StatusCode)
    THEN rawMismatch(resp.StatusCode, wantStatuses, ra.b)
    ELSE rawOk(ra.b)

\* A nil response with a nil request error: resp.Body dereferences nil.
Panicked ==
    [body |-> <<>>, err |-> NilErr, ops |-> <<>>, panicked |-> TRUE,
     readErr |-> NilErr, N |-> I64(0), v |-> 0, decodes |-> 0, readAlls |-> 0]

\* RawBody(resp, requestErr, wantStatuses, readLimit...): the bytes and the
\* error it returns, the calls it made on the body, and its locals after the
\* read (readErr: what ReadAll returned; N: limitedReader.N).
RawBody(resp, requestErr, wantStatuses, readLimit) ==
    IF requestFailed(requestErr)
    THEN [body |-> <<>>, err |-> sendingRequest(requestErr), ops |-> <<>>,
          panicked |-> FALSE, readErr |-> NilErr, N |-> I64(0), readAlls |-> 0]
    ELSE IF resp = NoResp
    THEN [f \in {"body", "err", "ops", "panicked", "readErr", "N", "readAlls"}
            |-> Panicked[f]]
    ELSE LET maxBytes == rawMaxBytes(readLimit)
             ra  == ReadAll([R |-> resp.Body, N |-> Inc64(maxBytes)])
             ret == rawResult(resp, wantStatuses, maxBytes, ra)
         IN  [body |-> ret.body, err |-> ret.err,
              ops |-> deferClose(Reads(ra.reads)),
              panicked |-> FALSE, readErr |-> ra.err, N |-> ra.l.N,
              readAlls |-> 1]

\* The form for one wanted code is missing.
jsonStatusErr_AlwaysList(got, wants) ==
    <<Lit("got status code "), Num(got), Lit(" but wanted one of ")>>
    \o FormatInts(wants)

\* err of JSON: the status mismatch.
jsonStatusErr(got, wants) ==
    IF Len(wants) = 1
    THEN <<Lit("got status code "), Num(got), Lit(" but wanted "), Num(wants[1])>>
    ELSE <<Lit("got status code "), Num(got), Lit(" but wanted one of ")>>
         \o FormatInts(wants)

\* The read error replaces the status error.
jsonReadFailed_Replaces(err, readErr) ==
    <<Lit("reading response body: ")>> \o readErr

\* fmt.Errorf("%v, also an error occurred when reading the response body: %v", err, readErr)
jsonReadFailed(err, readErr) ==
    err \o <<Lit(", also an error occurred when reading the response body: ")>>
        \o readErr

\* fmt.Errorf("%v, the first %d bytes of the response body are: %s", err, maxBytes, body)
jsonTruncated(err, maxBytes, body) ==
    err \o <<Lit(", the first "), Num64(maxBytes),
             Lit(" bytes of the response body are: "), Text(body)>>

\* The body is left out of the error.
jsonMismatch_NoBody(err, body) == err \o <<Lit(", body: ")>>

\* fmt.Errorf("%v, body: %s", err, body)
jsonMismatch(err, body) == err \o <<Lit(", body: "), Text(body)>>

\* fmt.Errorf("unmarshalling response body: %v", err)
jsonDecodeFailed(err) == <<Lit("unmarshalling response body: ")>> \o err

\* The error JSON returns for a status that is not wanted.
jsonUnexpected(resp, wantStatuses, maxBytes, ra) ==
    LET err == jsonStatusErr(resp.StatusCode, wantStatuses)
    IN  IF ra.err # NilErr THEN jsonReadFailed(err, ra.err)
        ELSE IF LeqZero64(ra.l.N) THEN jsonTruncated(err, maxBytes, ra.b)
        ELSE jsonMismatch(err, ra.b)

\* JSON(resp, requestErr, wantStatuses, v): the error it returns, the target
\* after the call, the calls it made on the body, the number of Decode and
\* of ioutil.ReadAll calls, and the locals of the read of an unexpected
\* response.
JSON(resp, requestErr, wantStatuses, v) ==
    IF requestFailed(requestErr)
    THEN [body |-> <<>>, err |-> sendingRequest(requestErr), ops |-> <<>>,
          panicked |-> FALSE, readErr |-> NilErr, N |-> I64(0),
          v |-> v, decodes |-> 0, readAlls |-> 0]
    ELSE IF resp = NoResp THEN [Panicked EXCEPT !.v = v]
    ELSE IF ~contains(wantStatuses, resp.StatusCode)
    THEN LET maxBytes == I64(JSONMaxBytes)
             ra == ReadAll([R |-> resp.Body, N |-> Inc64(maxBytes)])
         IN  [body |-> <<>>,
              err |-> jsonUnexpected(resp, wantStatuses, maxBytes, ra),
              ops |-> deferClose(Reads(ra.reads)),
              panicked |-> FALSE, readErr |-> ra.err, N |-> ra.l.N,
              v |-> v, decodes |-> 0, readAlls |-> 1]
    ELSE LET d == Decode(resp.Body)
         IN  [body |-> <<>>,
              err |-> IF d.err # NilErr THEN jsonDecodeFailed(d.err) ELSE NilErr,
              ops |-> deferClose(Reads(d.reads)),
              panicked |-> FALSE, readErr |-> NilErr, N |-> I64(0),
              v |-> IF d.ok THEN d.v ELSE v, decodes |-> 1, readAlls |-> 0]

\* ------------------------------------- the variants without requestErr

\* RawBody(resp, wantStatuses, readLimit...), the earlier revision: the
\* body is closed on every return, read under the limit, and the read error,
\* the limit and the status are checked in that order.
RawBodyNoRequestErr(resp, wantStatuses, readLimit) ==
    IF resp = NoResp
    THEN [body |-> <<>>, err |-> NilErr, ops |-> <<>>, panicked |-> TRUE]
    ELSE LET maxBytes == IF Len(readLimit) > 0 THEN readLimit[1]
                         ELSE I64(2^20 * 30)
             ra    == ReadAll([R |-> resp.Body, N |-> Inc64(maxBytes)])
             got   == resp.StatusCode
             wants == wantStatuses
             ops   == Append(Reads(ra.reads), "Close")
         IN  IF ra.err # NilErr
             THEN [body |-> <<>>, ops |-> ops, panicked |-> FALSE,
                   err |-> <<Lit("reading response body: ")>> \o ra.err]
             ELSE IF LeqZero64(ra.l.N)
             THEN [body |-> <<>>, ops |-> ops, panicked |-> FALSE,
                   err |-> <<Lit("ioutil.ReadAll() is used to read the response body and we limit how much it can read because nothing is infinite. The response body contained more than the limit of "),
                             Num64(maxBytes),
                             Lit(" bytes. Either increase the limit or parse the response body another way")>>]
             ELSE IF ~contains(wants, got)
             THEN [body |-> <<>>, ops |-> ops, panicked |-> FALSE,
                   err |-> (IF Len(wants) = 1
                            THEN <<Lit("got status code "), Num(got),
                                   Lit(" but wanted "), Num(wants[1])>>
                            ELSE <<Lit("got status code "), Num(got),
                                   Lit(" but wanted one of ")>> \o FormatInts(wants))
                           \o <<Lit(", body: "), Text(ra.b)>>]
             ELSE [body |-> ra.b, ops |-> ops, panicked |-> FALSE, err |-> NilErr]

\* JSON(resp, wantStatuses, v), the earlier revision.
JSONNoRequestErr(resp, wantStatuses, v) ==
    IF resp = NoResp
    THEN [err |-> NilErr, ops |-> <<>>, panicked |-> TRUE, v |-> v]
    ELSE LET got   == resp.StatusCode
             wants == wantStatuses
         IN  IF ~contains(wants, got)
             THEN LET maxBytes == I64(2^20)
                      ra  == ReadAll([R |-> resp.Body, N |-> Inc64(maxBytes)])
                      err == IF Len(wants) = 1
                             THEN <<Lit("got status code "), Num(got),
                                    Lit(" but wanted "), Num(wants[1])>>
                             ELSE <<Lit("got status code "), Num(got),
                                    Lit(" but wanted one of ")>> \o FormatInts(wants)
                  IN  [ops |-> Append(Reads(ra.reads), "Close"),
                       panicked |-> FALSE, v |-> v,
                       err |-> IF ra.err # NilErr
                               THEN err \o <<Lit(", also an error occurred when reading the response body: ")>>
                                        \o ra.err
                               ELSE IF LeqZero64(ra.l.N)
                               THEN err \o <<Lit(", the first "), Num64(maxBytes),
                                             Lit(" bytes of the response body are: "),
                                             Text(ra.b)>>
                               ELSE err \o <<Lit(", body: "), Text(ra.b)>>]
             ELSE LET d == Decode(resp.Body)
                  IN  [ops |-> Append(Reads(d.reads), "Close"),
                       panicked |-> FALSE,
                       v |-> IF d.ok THEN d.v ELSE v,
                       err |-> IF d.err # NilErr
                               THEN <<Lit("unmarshalling response body: ")>> \o d.err
                               ELSE NilErr]

\* ------------------------------------------------------------------ inputs

Alphabet == {"7", "l"}
ShortData == {Bytes(s) : s \in UNION {[1..n -> Alphabet] : n \in 0..MaxBodyLen}}
LongLens == {JSONMaxBytes, JSONMaxBytes + 1, DefaultMaxBytes, DefaultMaxBytes + 1}
LongData == {Repeat("z", n) : n \in LongLens}

ReadFail == <<Lit("some read err")>>
CloseFail == <<Lit("some close err")>>
SendFail == <<Lit("unexpected error with sending request")>>

Bodies ==
    [data : ShortData, chunk : 1..MaxChunk, readErr : {NilErr, ReadFail},
     withData : BOOLEAN, closeErr : {NilErr, CloseFail}]
    \cup
    [data : LongData, chunk : {BigChunk}, readErr : {NilErr, ReadFail},
     withData : BOOLEAN, closeErr : {NilErr, CloseFail}]

StatusCodes == {200, 999}
WantCodes == {200, 888}
WantLists == UNION {[1..n -> WantCodes] : n \in 0..MaxWants}

Responses == {NoResp} \cup [StatusCode : StatusCodes, Body : Bodies]

ReadLimits ==
    {<<>>} \cup {<<I64(n)>> : n \in 0..MaxLimit}
    \cup {<<MinusOne64>>, <<Sub64(MaxInt64, 1)>>, <<MaxInt64>>}

\* The value the caller's target holds before the call.
Targets == {42}

\* ----------------------------------------------------------- state machine

VARIABLES
    callee,        \* the operation called: "RawBody" or "JSON"
    done,          \* whether the call has returned (or panicked)
    resp,          \* the arguments of the call
    requestErr,
    wantStatuses,
    readLimit,
    v,             \* the caller's target (JSON)
    body,          \* the results of the call
    err,
    panicked,
    bodyOps,       \* the calls made on resp.Body, in order
    decodes,       \* the number of Decode calls
    readAlls,      \* the number of ioutil.ReadAll calls
    readErr,       \* what ioutil.ReadAll returned as its error
    limitedReaderN \* limitedReader.N after the read

vars == <<callee, done, resp, requestErr, wantStatuses, readLimit, v, body,
          err, panicked, bodyOps, decodes, readAlls, readErr, limitedReaderN>>

Init ==
    /\ callee \in {"RawBody", "JSON"}
    /\ done = FALSE
    /\ resp \in Responses
    /\ requestErr \in {NilErr, SendFail}
    /\ wantStatuses \in WantLists
    /\ readLimit \in IF callee = "RawBody" THEN ReadLimits ELSE {<<>>}
    /\ v \in IF callee = "JSON" THEN Targets ELSE {0}
    /\ body = <<>>
    /\ err = NilErr
    /\ panicked = FALSE
    /\ bodyOps = <<>>
    /\ decodes = 0
    /\ readAlls = 0
    /\ readErr = NilErr
    /\ limitedReaderN = I64(0)

RawBodyCall ==
    /\ callee = "RawBody"
    /\ ~done
    /\ LET r == RawBody(resp, requestErr, wantStatuses, readLimit)
       IN  /\ body' = r.body
           /\ err' = r.err
           /\ panicked' = r.panicked
           /\ bodyOps' = r.ops
           /\ readAlls' = r.readAlls
           /\ readErr' = r.readErr
           /\ limitedReaderN' = r.N
    /\ done' = TRUE
    /\ UNCHANGED <<callee, resp, requestErr, wantStatuses, readLimit, v, decodes>>

JSONCall ==
    /\ callee = "JSON"
    /\ ~done
    /\ LET r == JSON(resp, requestErr, wantStatuses, v)
       IN  /\ err' = r.err
           /\ panicked' = r.panicked
           /\ bodyOps' = r.ops
           /\ decodes' = r.decodes
           /\ readAlls' = r.readAlls
           /\ readErr' = r.readErr
           /\ limitedReaderN' = r.N
           /\ v' = r.v
    /\ done' = TRUE
    /\ UNCHANGED <<callee, resp, requestErr, wantStatuses, readLimit, body>>

Next == RawBodyCall \/ JSONCall

Spec == Init /\ [][Next]_vars

\* ------------------------------------------------------------------ claims

Count(ops, op) == Cardinality({i \in 1..Len(ops) : ops[i] = op})

\* The response is there and the request was sent without error.
Answered == done /\ requestErr = NilErr /\ resp # NoResp

Wanted == \E i \in 1..Len(wantStatuses) : wantStatuses[i] = resp.StatusCode

\* "[200 888]": the codes in the caller's order, a space between two of them.
ListText(xs) ==
    <<Lit("[")>>
    \o [i \in 1..(2 * Len(xs) - 1) |->
          IF i % 2 = 1 THEN Num(xs[(i + 1) \div 2]) ELSE Lit(" ")]
    \o <<Lit("]")>>

\* The status-mismatch fragment for the observed code g and the list wants.
MismatchFragment(g, wants) ==
    IF Len(wants) = 1
    THEN <<Lit("got status code "), Num(g), Lit(" but wanted "), Num(wants[1])>>
    ELSE <<Lit("got status code "), Num(g), Lit(" but wanted one of ")>>
         \o ListText(wants)

\* C1: a call of RawBody or JSON whose request error is nil closes the
\* response body exactly once, as the last thing it does to the body, on
\* every exit path.
C1_ClosedExactlyOnce ==
    Answered =>
        /\ Count(bodyOps, "Close") = 1
        /\ bodyOps[Len(bodyOps)] = "Close"

\* JSON has returned a decode failure and the body is closed.
C1_Witness ==
    /\ Answered /\ callee = "JSON" /\ decodes = 1 /\ err # NilErr
    /\ Count(bodyOps, "Close") = 1

\* C2: with a non-nil request error both operations return
\* "sending request: <request error>", RawBody returns no bytes, and the
\* response body is neither read nor closed, whether or not there is a response.
C2_RequestErrorShortCircuits ==
    (done /\ requestErr # NilErr) =>
        /\ err = <<Lit("sending request: ")>> \o requestErr
        /\ body = <<>>
        /\ bodyOps = <<>>
        /\ ~panicked
        /\ decodes = 0

\* The request failed, a response with a non-empty body was passed all the same.
C2_Witness ==
    /\ done /\ requestErr # NilErr /\ resp # NoResp
    /\ resp.Body.data # <<>>
    /\ bodyOps = <<>>

\* C3: RawBody never returns bytes beside an error; bytes are returned only
\* with a nil error and a status code that is one of the wanted ones.
C3_BytesXorError ==
    (done /\ callee = "RawBody") =>
        /\ err # NilErr => body = <<>>
        /\ body # <<>> => (err = NilErr /\ resp # NoResp /\ Wanted)

\* RawBody read a non-empty body of an unexpected status and returned no bytes.
C3_Witness ==
    /\ Answered /\ callee = "RawBody" /\ ~Wanted
    /\ readErr = NilErr /\ ~LeqZero64(limitedReaderN)
    /\ resp.Body.data # <<>>
    /\ err # NilErr /\ body = <<>>

\* C4 as claimed: for an observed status that is not wanted, the error of
\* RawBody and of JSON starts with the status-mismatch fragment whatever the
\* outcome of reading the body.
C4_Original ==
    (Answered /\ ~Wanted) =>
        IsPrefix(MismatchFragment(resp.StatusCode, wantStatuses), err)

\* C4 as amended: for an observed status that is not wanted, the error of JSON
\* starts with the status-mismatch fragment whatever the outcome of reading
\* the body; the error of RawBody starts with it when the body was read
\* without failure and within the limit, and is otherwise the read-failure or
\* body-too-large error, which does not start with the fragment.
C4_MismatchPrefix ==
    (Answered /\ ~Wanted) =>
        LET fragment == MismatchFragment(resp.StatusCode, wantStatuses)
        IN  IF callee = "JSON" \/ (readErr = NilErr /\ ~LeqZero64(limitedReaderN))
            THEN IsPrefix(fragment, err)
            ELSE ~IsPrefix(fragment, err) /\ err # NilErr

\* JSON met an unexpected status and a failing read, and reports both.
C4_Witness ==
    /\ Answered /\ ~Wanted /\ callee = "JSON" /\ readErr # NilErr
    /\ IsPrefix(MismatchFragment(resp.StatusCode, wantStatuses), err)

\* The body of the response: every byte the stream hands over.
Sent == resp.Body.data

\* The stream ends with io.EOF: the whole body can be read without failure.
Readable == resp.Body.readErr = NilErr

\* The limit in force in RawBody.
Limit == IF Len(readLimit) > 0 THEN readLimit[1] ELSE I64(DefaultMaxBytes)

\* The body-too-large error naming the limit L.
TooLarge(L) ==
    <<Lit("ioutil.ReadAll() is used to read the response body and we limit how much it can read because nothing is infinite. The response body contained more than the limit of "),
      Num64(L),
      Lit(" bytes. Either increase the limit or parse the response body another way")>>

\* C5: JSON, for a status that is not wanted and a body of more than 1048576
\* bytes that is read without failure, returns an error that states the number
\* 1048576 and embeds exactly the first 1048576 bytes of the body.
C5_FirstMiBOnly ==
    (Answered /\ callee = "JSON" /\ ~Wanted /\ Readable
     /\ BLen(Sent) > JSONMaxBytes) =>
        err = MismatchFragment(resp.StatusCode, wantStatuses)
              \o <<Lit(", the first "), Num64(I64(1048576)),
                   Lit(" bytes of the response body are: "),
                   Text(BTake(Sent, 1048576))>>

\* C6: RawBody, for a nil request error, a body read without failure that is
\* no longer than the limit and a wanted status, returns the complete body
\* and a nil error.
C6_WholeBodyReturned ==
    (Answered /\ callee = "RawBody" /\ Wanted /\ Readable
     /\ ~GtNat64(BLen(Sent), Limit)) =>
        (body = Sent /\ err = NilErr)

\* C7: RawBody, for a body longer than the limit in force (the caller's, or
\* the 30 MiB default), returns the error naming that limit and no bytes.
C7_TooLargeNamesLimit ==
    (Answered /\ callee = "RawBody" /\ Readable
     /\ GtNat64(BLen(Sent), Limit)) =>
        (err = TooLarge(Limit) /\ body = <<>>)

\* A body of one byte more than the default limit was refused.
C7_Witness ==
    /\ Answered /\ callee = "RawBody" /\ Readable
    /\ readLimit = <<>>
    /\ BLen(Sent) = DefaultMaxBytes + 1
    /\ err = TooLarge(I64(31457280)) /\ body = <<>>

\* C8: when the read of the body fails with message m, RawBody returns no
\* bytes and exactly "reading response body: m" whatever the status and the
\* wanted list, and JSON, for a status that is not wanted, returns the
\* status-mismatch fragment followed by
\* ", also an error occurred when reading the response body: m".
C8_ReadFailure ==
    (Answered /\ readErr # NilErr) =>
        /\ readErr = resp.Body.readErr
        /\ callee = "RawBody" =>
              (body = <<>> /\ err = <<Lit("reading response body: ")>> \o readErr)
        /\ callee = "JSON" =>
              /\ ~Wanted
              /\ err = MismatchFragment(resp.StatusCode, wantStatuses)
                       \o <<Lit(", also an error occurred when reading the response body: ")>>
                       \o readErr

\* RawBody failed to read the body of a response whose status is not wanted.
C8_Witness ==
    /\ Answered /\ callee = "RawBody" /\ ~Wanted
    /\ readErr = <<Lit("some read err")>>
    /\ err = <<Lit("reading response body: "), Lit("some read err")>>

\* The call returned a status-mismatch error.
MismatchReported ==
    /\ Answered /\ ~Wanted
    /\ callee = "RawBody" => (readErr = NilErr /\ ~LeqZero64(limitedReaderN))

\* C9: the status-mismatch fragment of RawBody and of JSON is
\* "got status code g but wanted w" exactly when the list holds one code w, and
\* otherwise "got status code g but wanted one of [..]" with every code of the
\* list in the caller's order, a space between two codes; what follows the
\* fragment starts with a comma.  The form depends on the length of the list
\* alone, and both operations build the same fragment.
C9_FragmentForm ==
    MismatchReported =>
        LET n == Len(wantStatuses)
            after == IF n = 1 THEN 5 ELSE IF n = 0 THEN 6 ELSE 2 * n + 5
        IN  /\ Len(err) >= after
            /\ err[1] = Lit("got status code ")
            /\ err[2] = Num(resp.StatusCode)
            /\ IF n = 1
               THEN /\ err[3] = Lit(" but wanted ")
                    /\ err[4] = Num(wantStatuses[1])
               ELSE /\ err[3] = Lit(" but wanted one of ")
                    /\ err[4] = Lit("[")
                    /\ \A i \in 1..n : err[3 + 2 * i] = Num(wantStatuses[i])
                    /\ \A i \in 1..(n - 1) : err[4 + 2 * i] = Lit(" ")
                    /\ err[after - 1] = Lit("]")
            /\ err[after] \in {Lit(", body: "),
                               Lit(", the first "),
                               Lit(", also an error occurred when reading the response body: ")}

\* RawBody reported a mismatch against a list that repeats a code.
C9_Witness ==
    /\ MismatchReported /\ callee = "RawBody"
    /\ Len(wantStatuses) = 2 /\ wantStatuses[1] = wantStatuses[2]
    /\ err[3] = Lit(" but wanted one of ")

\* C10: for a positive limit L passed by the caller, up to the largest int64,
\* and a body of n bytes read without failure, RawBody returns the
\* body-too-large error if and only if n > L.
C10_RejectedIffLonger ==
    (Answered /\ callee = "RawBody" /\ Readable
     /\ Len(readLimit) > 0 /\ ~LeqZero64(Limit)) =>
        (err = TooLarge(Limit) <=> GtNat64(BLen(Sent), Limit))

\* The caller passed the largest int64 as the limit, the one value for which
\* maxBytes + 1 wraps.
LargestLimit == Len(readLimit) > 0 /\ readLimit[1] = MaxInt64

\* C6 and C10 away from the largest int64: with any other limit a body read
\* without failure is returned whole exactly when it is no longer than the
\* limit, and refused exactly when it is longer.
BelowLargestLimit ==
    (Answered /\ callee = "RawBody" /\ Readable /\ ~LargestLimit) =>
        /\ err = TooLarge(Limit) <=> GtNat64(BLen(Sent), Limit)
        /\ (Wanted /\ ~GtNat64(BLen(Sent), Limit)) => (body = Sent /\ err = NilErr)

\* The error RawBody owes by the order request error, read failure, body
\* over the limit, status mismatch: the first condition that holds decides.
RawBodyOwes ==
    IF requestErr # NilErr THEN <<Lit("sending request: ")>> \o requestErr
    ELSE IF readErr # NilErr THEN <<Lit("reading response body: ")>> \o readErr
    ELSE IF GtNat64(BLen(Sent), Limit) THEN TooLarge(Limit)
    ELSE IF ~Wanted
    THEN MismatchFragment(resp.StatusCode, wantStatuses)
         \o <<Lit(", body: "), Text(Sent)>>
    ELSE NilErr

\* The calls on the body are the same whatever list of codes is wanted: the
\* bounded read is finished before the status is compared.
ReadBeforeStatus ==
    \A w \in WantLists : RawBody(resp, requestErr, w, readLimit).ops = bodyOps

\* No piece of the error is body text.
NoBodyText == \A i \in 1..Len(err) : DOMAIN err[i] # {"bytes"}

\* C11: RawBody evaluates its failure conditions in the order request error,
\* read failure, body over the limit, status mismatch, and the first that
\* holds alone determines the error; a body over the limit with an unwanted
\* status gives the body-too-large error with no body text in it, and the
\* status is compared only after the bounded read has finished.
C11_FailureOrder ==
    (done /\ callee = "RawBody" /\ ~panicked) =>
        /\ err = RawBodyOwes
        /\ ReadBeforeStatus
        /\ (Answered /\ readErr = NilErr /\ GtNat64(BLen(Sent), Limit) /\ ~Wanted)
              => (err = TooLarge(Limit) /\ NoBodyText)

\* C11 away from the largest int64: with any other limit the order holds.
C11_BelowLargestLimit == LargestLimit \/ C11_FailureOrder

\* A body over the limit with an unwanted status was refused for its size.
C11_BelowLargestLimit_Witness ==
    /\ Answered /\ callee = "RawBody" /\ ~LargestLimit
    /\ readErr = NilErr /\ GtNat64(BLen(Sent), Limit) /\ ~Wanted
    /\ Sent # <<>>
    /\ err = TooLarge(Limit) /\ NoBodyText

\* The decoder is to run: the request was sent without error and the
\* observed status is one of the wanted ones.
DecodeDue == requestErr = NilErr /\ resp # NoResp /\ Wanted

\* C12: JSON runs the decoder if and only if the request error is nil and the
\* observed status is wanted; otherwise the decoder is not invoked, the
\* caller's target is left as it was and a non-nil error is returned.  For an
\* unwanted status the body is consumed by the bounded read alone: no call
\* both buffers and decodes the body.
C12_DecodeOnlyWhenWanted ==
    [][(callee = "JSON" /\ ~done /\ done') =>
          /\ decodes' = (IF DecodeDue THEN 1 ELSE 0)
          /\ (~DecodeDue /\ ~panicked') => (v' = v /\ err' # NilErr)
          /\ decodes' + readAlls' <= 1
          /\ (requestErr = NilErr /\ resp # NoResp /\ ~Wanted) => readAlls' = 1
          /\ requestErr # NilErr => (readAlls' = 0 /\ bodyOps' = <<>>)
      ]_vars

\* JSON met an unwanted status: it buffered the body for the error, did not
\* decode and left the target alone.
C12_Witness ==
    /\ Answered /\ callee = "JSON" /\ ~Wanted
    /\ resp.Body.data = Bytes(<<"7">>)
    /\ decodes = 0 /\ readAlls = 1 /\ v \in Targets /\ err # NilErr

\* C13: called with a nil request error, RawBody and JSON return the same
\* bytes, decoded value and error, and make the same calls of Read and Close
\* on the body, as the earlier variants that take a status list and no
\* request error, for every response, status list, limit and target.
C13_SameAsWithoutRequestErr ==
    [][(~done /\ done' /\ requestErr = NilErr) =>
          IF callee = "RawBody"
          THEN LET h == RawBodyNoRequestErr(resp, wantStatuses, readLimit)
               IN  /\ body' = h.body
                   /\ err' = h.err
                   /\ bodyOps' = h.ops
                   /\ panicked' = h.panicked
          ELSE LET h == JSONNoRequestErr(resp, wantStatuses, v)
               IN  /\ err' = h.err
                   /\ v' = h.v
                   /\ bodyOps' = h.ops
                   /\ panicked' = h.panicked
      ]_vars

\* JSON decoded a body read in two Reads into the target, as the earlier
\* variant does.
C13_Witness ==
    /\ Answered /\ callee = "JSON" /\ decodes = 1 /\ err = NilErr
    /\ v = 77
    /\ bodyOps = <<"Read", "Read", "Read", "Close">>
    /\ \E v0 \in Targets :
          LET h == JSONNoRequestErr(resp, wantStatuses, v0)
          IN  h.v = v /\ h.ops = bodyOps /\ h.err = err

=============================================================================
